---- MODULE Spec2Model ----
(***************************************************************************)
(* A model of merlins-config-manager: the ConfigManager section store      *)
(* (src/unnamed/part_001) and the deep merge it rests on                   *)
(* (src/src/ConfigMerger.ts).                                              *)
(*                                                                         *)
(* The program is JavaScript: objects are shared by reference and mutated  *)
(* in place, so the model keeps an explicit heap.  A value is a tagged     *)
(* record [t, v]; an object or an array is a heap cell addressed by a      *)
(* value of tag "ref".  The file on disk is a document without sharing: a  *)
(* function from key paths to nodes.                                       *)
(***************************************************************************)
EXTENDS Integers, Sequences, FiniteSets, TLC

(***************************************************************************)
(* Bounds of the exploration.                                              *)
(***************************************************************************)
\* number of API calls made on one store
MaxOps == 2
\* longest path string handed to validatePath in SpecPath
MaxPathLen == 4

(***************************************************************************)
(* JavaScript values.                                                      *)
(***************************************************************************)
Undefined == [t |-> "undefined", v |-> 0]
Null == [t |-> "null", v |-> 0]
Num(i) == [t |-> "number", v |-> i]
\* a string is modelled by its length (the text is i times "x")
Str(i) == [t |-> "string", v |-> i]
Bool(b) == [t |-> "boolean", v |-> IF b THEN 1 ELSE 0]
Ref(a) == [t |-> "ref", v |-> a]
\* an object literal {} that is only read and never stored
Fresh == [t |-> "fresh", v |-> 0]

\* the typeof operator
TypeOf(x) == IF x.t \in {"ref", "null", "fresh"} THEN "object" ELSE x.t

\* ToBoolean, as used by !x, x && y and x || y
Truthy(x) ==
  CASE x.t \in {"ref", "fresh"} -> TRUE
    [] x.t \in {"number", "string", "boolean"} -> x.v # 0
    [] OTHER -> FALSE

\* the property names "0", "1", ... of array elements
IdxKey == <<"0", "1", "2", "3">>
IsIndex(k, len) == \E i \in 1..len : i <= Len(IdxKey) /\ IdxKey[i] = k
IndexOf(k) == CHOOSE i \in 0..(Len(IdxKey) - 1) : IdxKey[i + 1] = k
IsIdxKey(k) == \E i \in 1..Len(IdxKey) : IdxKey[i] = k

\* the own enumerable properties of an object with no property
EmptyF == [k \in {} |-> Undefined]
EmptyObj == [arr |-> FALSE, len |-> 0, f |-> EmptyF]

\* a set of property names as a sequence, in a fixed order
RECURSIVE KeySeq(_)
KeySeq(S) ==
  IF S = {} THEN <<>>
  ELSE LET k == CHOOSE x \in S : TRUE IN <<k>> \o KeySeq(S \ {k})

\* x[key] for an x that is neither null nor undefined
Get(h, x, key) ==
  CASE x.t = "ref" ->
         IF key \in DOMAIN h[x.v].f THEN h[x.v].f[key] ELSE Undefined
    [] x.t = "string" -> IF IsIndex(key, x.v) THEN Str(1) ELSE Undefined
    [] OTHER -> Undefined

\* Object.keys(x) for a reference x
Keys(h, x) == IF x.t = "ref" THEN DOMAIN h[x.v].f ELSE {}

\* obj[key] = val on the heap cell a (an array grows when key is an index)
Put(h, a, key, val) ==
  LET o == h[a]
      f2 == [k \in DOMAIN o.f \cup {key} |-> IF k = key THEN val ELSE o.f[k]]
      len2 == IF o.arr /\ IsIdxKey(key) /\ IndexOf(key) >= o.len
              THEN IndexOf(key) + 1 ELSE o.len
  IN [h EXCEPT ![a] = [arr |-> o.arr, len |-> len2, f |-> f2]]

\* delete obj[key] on the heap cell a (an array keeps its length: a hole)
Delete(h, a, key) ==
  LET o == h[a]
  IN [h EXCEPT ![a] = [arr |-> o.arr, len |-> o.len,
                       f |-> [k \in DOMAIN o.f \ {key} |-> o.f[k]]]]

(***************************************************************************)
(* Documents: a function from key paths to nodes.  A node is a scalar      *)
(* value, [t |-> "map"] or [t |-> "arr", v |-> length].                    *)
(***************************************************************************)
MapNode == [t |-> "map", v |-> 0]
ArrNode(len) == [t |-> "arr", v |-> len]

\* the document given by a set of <<path, node>> pairs
Doc(pairs) ==
  [p \in {x[1] : x \in pairs} |-> (CHOOSE x \in pairs : x[1] = p)[2]]

Kids(tree, p) ==
  {q[Len(p) + 1] : q \in {r \in DOMAIN tree :
        Len(r) = Len(p) + 1 /\ SubSeq(r, 1, Len(p)) = p}}

\* the subtree of a document below path p (the empty function if absent)
SubTree(tree, p) ==
  LET below == {q \in DOMAIN tree :
                  Len(q) >= Len(p) /\ SubSeq(q, 1, Len(p)) = p}
  IN Doc({<<SubSeq(q, Len(p) + 1, Len(q)), tree[q]>> : q \in below})

\* JSON.parse of a document, and an object literal of the caller: the
\* objects are allocated on the heap
RECURSIVE Build(_, _, _), BuildKids(_, _, _, _, _)
Build(h, tree, p) ==
  LET node == tree[p]
  IN IF node.t \notin {"map", "arr"} THEN [h |-> h, v |-> node]
     ELSE LET a == Len(h) + 1
              h1 == Append(h, [arr |-> node.t = "arr", len |-> node.v,
                                f |-> EmptyF])
          IN [h |-> BuildKids(h1, tree, p, a, KeySeq(Kids(tree, p))),
              v |-> Ref(a)]
BuildKids(h, tree, p, a, keys) ==
  IF keys = <<>> THEN h
  ELSE LET r == Build(h, tree, Append(p, Head(keys)))
       IN BuildKids([r.h EXCEPT ![a].f = [k \in DOMAIN @ \cup {Head(keys)} |->
                                   IF k = Head(keys) THEN r.v ELSE @[k]]],
                    tree, p, a, Tail(keys))

\* the value x as it is in memory: holes of arrays are absent, properties
\* of arrays that are no elements are present
RECURSIVE ReifyPairs(_, _, _)
ReifyPairs(h, x, p) ==
  IF x.t # "ref" THEN {<<p, x>>}
  ELSE LET o == h[x.v]
       IN {<<p, IF o.arr THEN ArrNode(o.len) ELSE MapNode>>}
          \cup UNION {ReifyPairs(h, o.f[k], Append(p, k)) : k \in DOMAIN o.f}
Reify(h, x) == Doc(ReifyPairs(h, x, <<>>))

\* JSON.stringify: an array is written element by element up to its
\* length, a hole or undefined as null; other properties of an array and
\* undefined properties of an object are not written
RECURSIVE StringifyPairs(_, _, _)
StringifyPairs(h, x, p) ==
  IF x.t # "ref" THEN {<<p, IF x.t = "undefined" THEN Null ELSE x>>}
  ELSE LET o == h[x.v]
       IN IF o.arr
          THEN {<<p, ArrNode(o.len)>>}
               \cup UNION {StringifyPairs(h, Get(h, x, IdxKey[i]),
                                          Append(p, IdxKey[i])) : i \in 1..o.len}
          ELSE {<<p, MapNode>>}
               \cup UNION {StringifyPairs(h, o.f[k], Append(p, k)) :
                             k \in {j \in DOMAIN o.f : o.f[j] # Undefined}}
JSONstringify(h, x) == Doc(StringifyPairs(h, x, <<>>))

(***************************************************************************)
(* Paths.  A path string is a sequence of one-character strings.           *)
(***************************************************************************)
Lower == {"a", "b", "c", "d", "e", "f", "g", "h", "i", "j", "k", "l", "m",
          "n", "o", "p", "q", "r", "s", "t", "u", "v", "w", "x", "y", "z"}
Upper == {"A", "B", "C", "D", "E", "F", "G", "H", "I", "J", "K", "L", "M",
          "N", "O", "P", "Q", "R", "S", "T", "U", "V", "W", "X", "Y", "Z"}
Digit == {"0", "1", "2", "3", "4", "5", "6", "7", "8", "9"}
\* the character class [a-z0-9_\-.] under the flag i
InClass(c) == c \in Lower \cup Upper \cup Digit \cup {"_", "-", "."}

\* the characters of a path as one string (a property name)
RECURSIVE Join(_)
Join(cs) == IF cs = <<>> THEN "" ELSE Head(cs) \o Join(Tail(cs))

\* path.split('.'): the segments, "" included ("".split('.') is [""])
RECURSIVE Split(_)
Split(path) ==
  IF \A i \in 1..Len(path) : path[i] # "." THEN <<Join(path)>>
  ELSE LET i == CHOOSE j \in 1..Len(path) :
                  path[j] = "." /\ \A m \in 1..(j - 1) : path[m] # "."
       IN <<Join(SubSeq(path, 1, i - 1))>>
          \o Split(SubSeq(path, i + 1, Len(path)))

Reverse(s) == [i \in 1..Len(s) |-> s[Len(s) + 1 - i]]

\* RegExp.test for the three patterns of validatePath; none is anchored
\* unless it says so
TestClass(path) == \E i \in 1..Len(path) : InClass(path[i])
TestBoundary(path) == path[1] = "." \/ path[Len(path)] = "."
TestDots(path) == \E i \in 1..(Len(path) - 1) : path[i] = "." /\ path[i + 1] = "."

\* validatePath with the third test left out
validatePathNoDots(path) ==
  IF path = <<>> THEN "ok"
  ELSE IF ~TestClass(path) THEN "InvalidPathCharacter"
  ELSE IF TestBoundary(path) THEN "InvalidPathBoundary"
  ELSE "ok"

\* ConfigManager.validatePath: "ok", or the error it throws
validatePath(path) ==
  IF path = <<>> THEN "ok"
  ELSE IF ~TestClass(path) THEN "InvalidPathCharacter"
  ELSE IF TestBoundary(path) THEN "InvalidPathBoundary"
  ELSE IF TestDots(path) THEN "InvalidPathSegment"
  ELSE "ok"

(***************************************************************************)
(* Deep merge (ConfigMerger.ts).                                           *)
(***************************************************************************)
\* item && typeof item === 'object' && !Array.isArray(item)
isObject(h, item) == item.t = "ref" /\ ~h[item.v].arr

\* mergeConfigs(target, ...sources): the heap after the call (the call
\* returns target itself)
RECURSIVE mergeConfigs(_, _, _), mergeKeys(_, _, _, _), mergeKeysReset(_, _, _, _)
mergeConfigs(h, target, sources) ==
  IF Len(sources) = 0 THEN h
  ELSE LET source == Head(sources)
           h1 == IF isObject(h, target) /\ isObject(h, source)
                 THEN mergeKeys(h, target, source, KeySeq(Keys(h, source)))
                 ELSE h
       IN mergeConfigs(h1, target, Tail(sources))
\* the loop body with the mapping branch putting a new {} at the key
\* instead of merging into it
mergeKeysReset(h, target, source, keys) ==
  IF keys = <<>> THEN h
  ELSE LET key == Head(keys)
           sv == Get(h, source, key)
           h1 == IF isObject(h, sv)
                 THEN Put(Append(h, EmptyObj), target.v, key, Ref(Len(h) + 1))
                 ELSE Put(h, target.v, key, sv)
       IN mergeKeysReset(h1, target, source, Tail(keys))

\* the body of the loop "for (const key in source)", for the keys left
mergeKeys(h, target, source, keys) ==
  IF keys = <<>> THEN h
  ELSE LET key == Head(keys)
           sv == Get(h, source, key)
           h1 == IF isObject(h, sv)
                 THEN LET h2 == IF ~Truthy(Get(h, target, key))
                                THEN Put(Append(h, EmptyObj), target.v, key,
                                         Ref(Len(h) + 1))
                                ELSE h
                      IN mergeConfigs(h2, Get(h2, target, key), <<sv>>)
                 ELSE Put(h, target.v, key, sv)
       IN mergeKeys(h1, target, source, Tail(keys))

(***************************************************************************)
(* The section store (class ConfigManager).  A store is a record           *)
(*   h              the heap                                               *)
(*   config         this.config (Undefined when JSON.parse threw)          *)
(*   oldConfig      this.oldConfig                                         *)
(*   defaultConfig  this.defaultConfig                                     *)
(*   created        this.created                                           *)
(*   file           the file: [st |-> "absent" | "garbage" | "json", doc]  *)
(* A call yields [s |-> the store after it, ret |-> the value returned,    *)
(* err |-> "ok" or the error thrown].                                      *)
(***************************************************************************)
Result(s, ret, err) == [s |-> s, ret |-> ret, err |-> err]

\* the loop of getOrCreateConfigPath over the segments left
RECURSIVE walk(_, _, _)
walk(h, root, paths) ==
  IF paths = <<>> THEN [h |-> h, ret |-> root, err |-> "ok"]
  ELSE IF root.t \in {"null", "undefined"}
  THEN [h |-> h, ret |-> Undefined, err |-> "TypeError"]
  ELSE LET p == Head(paths)
           h1 == IF TypeOf(Get(h, root, p)) # "object"
                 THEN Put(Append(h, EmptyObj), root.v, p, Ref(Len(h) + 1))
                 ELSE h
       IN walk(h1, Get(h1, root, p), Tail(paths))

\* getOrCreateConfigPath with the walk done before the path is validated
getOrCreateConfigPathLate(s, path) ==
  IF path = <<>> THEN Result(s, s.config, "ok")
  ELSE LET w == walk(s.h, s.config, Split(path))
       IN IF validatePath(path) # "ok"
          THEN Result([s EXCEPT !.h = w.h], Undefined, validatePath(path))
          ELSE Result([s EXCEPT !.h = w.h], w.ret, w.err)

\* ConfigManager.getOrCreateConfigPath
getOrCreateConfigPath(s, path) ==
  IF path = <<>> THEN Result(s, s.config, "ok")
  ELSE IF validatePath(path) # "ok"
  THEN Result(s, Undefined, validatePath(path))
  ELSE LET w == walk(s.h, s.config, Split(path))
       IN Result([s EXCEPT !.h = w.h], w.ret, w.err)

\* saveConfig that leaves the file as it is
saveConfigSkipped(s) == s

\* ConfigManager.saveConfig
saveConfig(s) ==
  [s EXCEPT !.file = [st |-> "json", doc |-> JSONstringify(s.h, s.config)]]

\* root = {[p]: root} for each p of paths: the heap and the last root
RECURSIVE wrap(_, _, _)
wrap(h, root, paths) ==
  IF paths = <<>> THEN [h |-> h, v |-> root]
  ELSE wrap(Put(Append(h, EmptyObj), Len(h) + 1, Head(paths), root),
            Ref(Len(h) + 1), Tail(paths))

\* Object.assign(target, source) for a target that is an object
RECURSIVE assignKeys(_, _, _, _)
assignKeys(h, target, source, keys) ==
  IF keys = <<>> THEN h
  ELSE assignKeys(Put(h, target.v, Head(keys), Get(h, source, Head(keys))),
                  target, source, Tail(keys))
ObjectAssign(h, target, source) ==
  assignKeys(h, target, source,
             KeySeq(IF source.t = "string"
                    THEN {IdxKey[i] : i \in 1..source.v}
                    ELSE Keys(h, source)))

\* ConfigManager.updateConfigPath
updateConfigPath(s, path, values) ==
  LET g == getOrCreateConfigPath(s, path)
  IN IF g.err # "ok" THEN g
     ELSE IF path = <<>> /\ s.config.t \in {"null", "undefined"}
     THEN Result(g.s, Undefined, "TypeError")
     ELSE LET paths == Reverse(Split(path))
              inner == wrap(g.s.h, values, SubSeq(paths, 1, Len(paths) - 1))
              h1 == IF path # <<>>
                    THEN Put(inner.h, s.config.v, paths[Len(paths)], inner.v)
                    ELSE ObjectAssign(g.s.h, s.config, values)
          IN getOrCreateConfigPath(saveConfig([g.s EXCEPT !.h = h1]), path)

\* ConfigManager.addDefaultConfig
addDefaultConfig(s, path, defaults) ==
  IF validatePath(path) # "ok" THEN Result(s, Undefined, validatePath(path))
  ELSE LET root == wrap(s.h, defaults, Reverse(Split(path)))
       IN Result([s EXCEPT !.h = mergeConfigs(root.h, s.defaultConfig,
                                               <<root.v>>)],
                 Undefined, "ok")

\* ConfigManager.configSection
configSection(s, path, defaults) ==
  LET g == getOrCreateConfigPath(s, path)
  IN IF g.err # "ok" THEN g
     ELSE IF g.ret = defaults THEN g
     ELSE LET a == addDefaultConfig(g.s, path, defaults)
              src == IF Truthy(g.ret)
                     THEN [h |-> a.s.h, v |-> g.ret]
                     ELSE [h |-> Append(a.s.h, EmptyObj),
                           v |-> Ref(Len(a.s.h) + 1)]
          IN IF a.err # "ok" THEN a
             ELSE updateConfigPath(
                    [a.s EXCEPT !.h = mergeConfigs(src.h, defaults, <<src.v>>)],
                    path, defaults)

(***************************************************************************)
(* Validation.  A report holds created (createdAll when it is true, else   *)
(* the list in created), unusedValues and wrongTypes, as sets.             *)
(***************************************************************************)
EmptyReport ==
  [createdAll |-> FALSE, created |-> {}, unusedValues |-> {}, wrongTypes |-> {}]

\* the resolver of validateConfig: [h, rep, err]
RECURSIVE resolve(_, _, _, _, _, _, _, _), resolveKeys(_, _, _, _, _, _, _, _, _)
resolve(h, firstLevel, path, conf, oldConf, defConf, clear, rep) ==
  IF conf.t \in {"null", "undefined"}
  THEN [h |-> h, rep |-> rep, err |-> "TypeError"]
  ELSE resolveKeys(h, firstLevel, path, conf, oldConf, defConf, clear, rep,
                   KeySeq(Keys(h, conf)))
\* the body of the loop "for (const key of Object.keys(conf))"
resolveKeys(h, firstLevel, path, conf, oldConf, defConf, clear, rep, keys) ==
  IF keys = <<>> THEN [h |-> h, rep |-> rep, err |-> "ok"]
  ELSE IF defConf.t \in {"null", "undefined"}
  THEN [h |-> h, rep |-> rep, err |-> "TypeError"]
  ELSE LET key == Head(keys)
           propKey == IF firstLevel THEN key ELSE path \o "." \o key
           ov == Get(h, oldConf, key)
           cv == Get(h, conf, key)
           dv == Get(h, defConf, key)
           rep1 == IF ov = Undefined
                   THEN [rep EXCEPT !.created = @ \cup {propKey}] ELSE rep
           unused == TypeOf(cv) # TypeOf(dv) /\ TypeOf(dv) = "undefined"
           wrong == TypeOf(cv) # TypeOf(dv) /\ TypeOf(dv) # "undefined"
           rep2 == IF unused
                   THEN [rep1 EXCEPT !.unusedValues = @ \cup {propKey}]
                   ELSE IF wrong
                   THEN [rep1 EXCEPT !.wrongTypes = @ \cup
                           {[path |-> propKey, expected |-> TypeOf(dv),
                             actual |-> TypeOf(cv)]}]
                   ELSE rep1
           h1 == IF unused /\ clear THEN Delete(h, conf.v, key) ELSE h
           cv2 == Get(h1, conf, key)
           r == IF TypeOf(cv2) = "object" /\ TypeOf(dv) = "object"
                THEN resolve(h1, FALSE, propKey, cv2,
                             IF Truthy(ov) THEN ov ELSE Fresh, dv, clear, rep2)
                ELSE [h |-> h1, rep |-> rep2, err |-> "ok"]
       IN IF r.err # "ok" THEN r
          ELSE resolveKeys(r.h, firstLevel, path, conf, oldConf, defConf,
                           clear, r.rep, Tail(keys))

\* ConfigManager.validateConfig: [s, rep, err]
validateConfig(s, clearUnusedValues) ==
  LET r == resolve(s.h, TRUE, "", s.config, s.oldConfig, s.defaultConfig,
                   clearUnusedValues, EmptyReport)
      s1 == [s EXCEPT !.h = r.h]
  IN IF r.err # "ok" THEN [s |-> s1, rep |-> EmptyReport, err |-> r.err]
     ELSE [s |-> IF clearUnusedValues THEN saveConfig(s1) ELSE s1,
           rep |-> IF s.created
                   THEN [r.rep EXCEPT !.createdAll = TRUE, !.created = {}]
                   ELSE r.rep,
           err |-> "ok"]

\* the constructor, over a file that is absent, unparsable or a document
NoFile == [st |-> "absent", doc |-> EmptyF]
Garbage == [st |-> "garbage", doc |-> EmptyF]
Json(doc) == [st |-> "json", doc |-> doc]
constructor(f) ==
  LET h0 == <<EmptyObj, EmptyObj>>  \* the initializers of oldConfig, defaultConfig
  IN IF f.st = "absent"
     THEN [s |-> [h |-> Append(h0, EmptyObj), config |-> Ref(3),
                  oldConfig |-> Ref(1), defaultConfig |-> Ref(2),
                  created |-> TRUE, file |-> f],
           configFileLoadingError |-> FALSE]
     ELSE IF f.st = "garbage"
     THEN [s |-> [h |-> h0, config |-> Undefined,
                  oldConfig |-> Ref(1), defaultConfig |-> Ref(2),
                  created |-> FALSE, file |-> f],
           configFileLoadingError |-> TRUE]
     ELSE LET b == Build(h0, f.doc, <<>>)
              h1 == Append(b.h, EmptyObj)
              old == Ref(Len(h1))
          IN [s |-> [h |-> mergeConfigs(h1, old, <<b.v>>), config |-> b.v,
                     oldConfig |-> old, defaultConfig |-> Ref(2),
                     created |-> FALSE, file |-> f],
              configFileLoadingError |-> FALSE]

(***************************************************************************)
(* The inputs explored: files found at construction, defaults and values   *)
(* handed in by the caller, and paths.                                     *)
(***************************************************************************)
Root == <<>>
\* {"A": {"k": "x"}}
FileOverride == Doc({<<Root, MapNode>>, <<<<"A">>, MapNode>>,
                     <<<<"A", "k">>, Str(1)>>})
\* {"A": {"k": {"m": 1}}, "u": 1}
FileMapping == Doc({<<Root, MapNode>>, <<<<"A">>, MapNode>>,
                    <<<<"A", "k">>, MapNode>>, <<<<"A", "k", "m">>, Num(1)>>,
                    <<<<"u">>, Num(1)>>})
\* {"A": {"k": [1, 2]}}
FileArray == Doc({<<Root, MapNode>>, <<<<"A">>, MapNode>>,
                  <<<<"A", "k">>, ArrNode(2)>>, <<<<"A", "k", "0">>, Num(1)>>,
                  <<<<"A", "k", "1">>, Num(2)>>})
\* {"A": {"k": null, "B": {"k": 0}}}
FileNull == Doc({<<Root, MapNode>>, <<<<"A">>, MapNode>>,
                 <<<<"A", "k">>, Null>>, <<<<"A", "B">>, MapNode>>,
                 <<<<"A", "B", "k">>, Num(0)>>})
Files == {NoFile, Garbage, Json(FileOverride), Json(FileMapping),
          Json(FileArray), Json(FileNull)}

\* {k: 1, m: 2}
DefScalars == Doc({<<Root, MapNode>>, <<<<"k">>, Num(1)>>, <<<<"m">>, Num(2)>>})
\* {k: {m: 1}}
DefMapping == Doc({<<Root, MapNode>>, <<<<"k">>, MapNode>>,
                   <<<<"k", "m">>, Num(1)>>})
\* {k: [1]}
DefArray == Doc({<<Root, MapNode>>, <<<<"k">>, ArrNode(1)>>,
                 <<<<"k", "0">>, Num(1)>>})
\* [1]
DefList == Doc({<<Root, ArrNode(1)>>, <<<<"0">>, Num(1)>>})
Defaults == {DefScalars, DefMapping, DefArray, DefList}

\* the values handed to updateConfigPath: a mapping, an array, a scalar
Values == {DefArray, DefList, Doc({<<Root, Num(5)>>})}

\* "", "A", "A.B", "A.k", ".A", "A "
Paths == {<<>>, <<"A">>, <<"A", ".", "B">>, <<"A", ".", "k">>,
          <<".", "A">>, <<"A", " ">>}

(***************************************************************************)
(* The state machine: one store, constructed over a file, and the calls    *)
(* made on it one after the other.                                         *)
(***************************************************************************)
\* heap .. file: the store and its file; loaded: the file as the constructor
\* found it; last: the latest call and its outcome; n: the calls made;
\* held: the objects the calling code keeps a reference to
VARIABLES heap, config, oldConfig, defaultConfig, created,
          configFileLoadingError, file, loaded, last, n, held

vars == <<heap, config, oldConfig, defaultConfig, created,
          configFileLoadingError, file, loaded, last, n, held>>

Store == [h |-> heap, config |-> config, oldConfig |-> oldConfig,
          defaultConfig |-> defaultConfig, created |-> created, file |-> file]

\* the record of a call: what was called with what, and what came back
Call(op, path, arg, clear, err, ret, rep) ==
  [op |-> op, path |-> path, arg |-> arg, clear |-> clear, err |-> err,
   ret |-> ret, rep |-> rep]
NoDoc == Doc({<<Root, Undefined>>})

Becomes(s) ==
  /\ heap' = s.h
  /\ file' = s.file
  /\ UNCHANGED <<config, oldConfig, defaultConfig, created,
                 configFileLoadingError, loaded, held>>
  /\ n' = n + 1

Constructed(f) ==
    LET c == constructor(f)
    IN /\ loaded = f
       /\ heap = c.s.h
       /\ config = c.s.config
       /\ oldConfig = c.s.oldConfig
       /\ defaultConfig = c.s.defaultConfig
       /\ created = c.s.created
       /\ configFileLoadingError = c.configFileLoadingError
       /\ file = c.s.file
       /\ last = Call("new", <<>>, NoDoc, FALSE, "ok", NoDoc, EmptyReport)
       /\ n = 0

Init == \E f \in Files : Constructed(f) /\ held = <<>>

\* the call's result r is bound once, then recorded
Returns(r, op, path, arg) ==
  /\ Becomes(r.s)
  /\ last' = Call(op, path, arg, FALSE, r.err, Reify(r.s.h, r.ret),
                  EmptyReport)

CallConfigSection ==
  /\ n < MaxOps
  /\ \E path \in Paths, d \in Defaults :
       \E b \in {Build(heap, d, Root)} :
         \E r \in {configSection([Store EXCEPT !.h = b.h], path, b.v)} :
           Returns(r, "configSection", path, d)

CallUpdateConfigPath ==
  /\ n < MaxOps
  /\ \E path \in Paths, d \in Values :
       \E b \in {Build(heap, d, Root)} :
         \E r \in {updateConfigPath([Store EXCEPT !.h = b.h], path, b.v)} :
           Returns(r, "update", path, d)

CallGetOrCreateConfigPath ==
  /\ n < MaxOps
  /\ \E path \in Paths :
       \E r \in {getOrCreateConfigPath(Store, path)} :
         Returns(r, "getOrCreate", path, NoDoc)

CallValidateConfig ==
  /\ n < MaxOps
  /\ \E clear \in BOOLEAN :
       \E r \in {validateConfig(Store, clear)} :
         /\ Becomes(r.s)
         /\ last' = Call("validate", <<>>, NoDoc, clear, r.err, NoDoc, r.rep)

Next ==
  \/ CallConfigSection
  \/ CallUpdateConfigPath
  \/ CallGetOrCreateConfigPath
  \/ CallValidateConfig

Spec == Init /\ [][Next]_vars

(***************************************************************************)
(* validatePath on its own: every path string up to MaxPathLen over a few  *)
(* characters inside and outside the class, on a store without a file.     *)
(***************************************************************************)
Chars == {"A", "b", "7", "_", "-", ".", " "}
PathStrings == UNION {[1..k -> Chars] : k \in 0..MaxPathLen}

CallValidatePath ==
  /\ last.op = "new"
  /\ \E path \in PathStrings :
       last' = Call("validatePath", path, NoDoc, FALSE, validatePath(path),
                    NoDoc, EmptyReport)
  /\ n' = n + 1
  /\ UNCHANGED <<heap, config, oldConfig, defaultConfig, created,
                 configFileLoadingError, file, loaded, held>>

InitPath == Constructed(NoFile) /\ held = <<>>
NextPath == CallValidatePath
SpecPath == InitPath /\ [][NextPath]_vars

(***************************************************************************)
(* mergeConfigs on its own: the calling code builds a target and one or    *)
(* two sources and calls mergeConfigs(target, ...sources) once.            *)
(***************************************************************************)
\* the shapes a key of a merged tree holds: 1, 0, null, [1], {}, {x: 1},
\* {x: {y: 1}}
MergeShapes ==
  {Doc({<<Root, Num(1)>>}), Doc({<<Root, Num(0)>>}), Doc({<<Root, Null>>}),
   DefList, Doc({<<Root, MapNode>>}),
   Doc({<<Root, MapNode>>, <<<<"x">>, Num(1)>>}),
   Doc({<<Root, MapNode>>, <<<<"x">>, MapNode>>, <<<<"x", "y">>, Num(1)>>})}
\* no key at all
Absent == Doc({<<Root, Undefined>>})
\* the mapping with the trees a and b at the keys "a" and "b"
Tree(a, b) ==
  Doc({<<Root, MapNode>>}
      \cup (IF a = Absent THEN {} ELSE {<<<<"a">> \o q, a[q]>> : q \in DOMAIN a})
      \cup (IF b = Absent THEN {} ELSE {<<<<"b">> \o q, b[q]>> : q \in DOMAIN b}))
MergeTrees == {Tree(a, b) : a, b \in MergeShapes \cup {Absent}}
SmallTrees == {Tree(a, Absent) : a \in MergeShapes \cup {Absent}}
\* the argument lists: (target, source) and (target, source, source)
MergeArgs ==
  {<<t, x>> : t, x \in MergeTrees}
    \cup {<<t, x, y>> : t \in MergeTrees, x, y \in SmallTrees}

\* the objects of an argument list, built one after the other
RECURSIVE BuildAll(_, _, _)
BuildAll(h, refs, trees) ==
  IF trees = <<>> THEN [h |-> h, refs |-> refs]
  ELSE LET b == Build(h, Head(trees), Root)
       IN BuildAll(b.h, Append(refs, b.v), Tail(trees))

InitMerge ==
  \E args \in MergeArgs :
    /\ heap = BuildAll(<<>>, <<>>, args).h
    /\ held = BuildAll(<<>>, <<>>, args).refs
    /\ config = Undefined /\ oldConfig = Undefined
    /\ defaultConfig = Undefined
    /\ created = FALSE /\ configFileLoadingError = FALSE
    /\ file = NoFile /\ loaded = NoFile
    /\ last = Call("new", <<>>, NoDoc, FALSE, "ok", NoDoc, EmptyReport)
    /\ n = 0

CallMergeConfigs ==
  /\ last.op = "new"
  /\ \E h \in {mergeConfigs(heap, held[1], Tail(held))} :
       /\ heap' = h
       /\ last' = Call("merge", <<>>, Reify(heap, held[1]), FALSE, "ok",
                       Reify(h, held[1]), EmptyReport)
  /\ n' = n + 1
  /\ UNCHANGED <<config, oldConfig, defaultConfig, created,
                 configFileLoadingError, file, loaded, held>>

NextMerge == CallMergeConfigs
SpecMerge == InitMerge /\ [][NextMerge]_vars

(***************************************************************************)
(* A caller that keeps one defaults object and hands it to several         *)
(* sections, next to sections that get an object of their own.             *)
(***************************************************************************)
\* {"B": {"k": "xx"}}
FileOther == Doc({<<Root, MapNode>>, <<<<"B">>, MapNode>>,
                  <<<<"B", "k">>, Str(2)>>})
\* {"A": {"k": "x"}, "B": {"k": "xx"}}
FileBoth == Doc({<<Root, MapNode>>, <<<<"A">>, MapNode>>,
                 <<<<"A", "k">>, Str(1)>>, <<<<"B">>, MapNode>>,
                 <<<<"B", "k">>, Str(2)>>})
FilesShared == {NoFile, Json(FileOverride), Json(FileOther), Json(FileBoth)}
DefaultsShared == {DefScalars, DefMapping, DefArray}
\* the top-level sections "A" and "B"
PathsShared == {<<"A">>, <<"B">>}

InitShared ==
  \E f \in FilesShared, d \in DefaultsShared :
    LET c == constructor(f)
        b == Build(c.s.h, d, Root)
    IN /\ loaded = f
       /\ heap = b.h
       /\ held = <<b.v>>
       /\ config = c.s.config
       /\ oldConfig = c.s.oldConfig
       /\ defaultConfig = c.s.defaultConfig
       /\ created = c.s.created
       /\ configFileLoadingError = c.configFileLoadingError
       /\ file = c.s.file
       /\ last = Call("new", <<>>, NoDoc, FALSE, "ok", NoDoc, EmptyReport)
       /\ n = 0

\* configSection(path, D) with the object D the caller has kept
CallConfigSectionHeld ==
  /\ n < MaxOps
  /\ \E path \in PathsShared :
       \E r \in {configSection(Store, path, held[1])} :
         Returns(r, "configSection", path, Reify(heap, held[1]))

NextShared ==
  \/ CallConfigSectionHeld
  \/ CallConfigSection
SpecShared == InitShared /\ [][NextShared]_vars

(***************************************************************************)
(* What the properties below speak of.                                     *)
(***************************************************************************)
\* the key path of a path string ("" is the root)
PathKeys(path) == IF path = <<>> THEN Root ELSE Split(path)
\* a key path written with dots, as the reports write it
RECURSIVE Dotted(_)
Dotted(q) == IF Len(q) = 1 THEN q[1] ELSE q[1] \o "." \o Dotted(Tail(q))
\* every character of the path is a letter, a digit, a dash, an underscore
\* or a dot
AllInClass(path) == \A i \in 1..Len(path) : InClass(path[i])
\* a path of one or more non-empty segments of allowed characters
WellFormed(path) ==
  /\ path # <<>>
  /\ AllInClass(path)
  /\ \A i \in 1..Len(Split(path)) : Split(path)[i] # ""
PathErrors == {"InvalidPathCharacter", "InvalidPathBoundary", "InvalidPathSegment"}
PathAddressed == {"getOrCreate", "update", "configSection"}
\* the Document, the Snapshot and the DefaultsTree as they are in memory
Document == Reify(heap, config)
Snapshot == Reify(heap, oldConfig)
DefaultsTree == Reify(heap, defaultConfig)
\* the runtime kind (typeof) of a node of a document
Kind(node) == IF node.t \in {"map", "arr", "null"} THEN "object" ELSE node.t

\* C4: validatePath rejects every non-empty path with a character outside
\* letters, digits, dash, underscore and dot, so that no path-addressed call
\* goes through with such a path.
C4_BadCharacterRejected ==
  (last.op \in PathAddressed /\ ~AllInClass(last.path))
    => last.err = "InvalidPathCharacter"

\* C5: validatePath accepts the empty path; a non-empty path of allowed
\* characters fails exactly when it starts with a dot, ends with a dot or
\* has two dots in a row, that is, exactly when one of its dot-separated
\* segments is empty.
C5_DotRules ==
  last.op = "validatePath" =>
    LET path == last.path
        dotFirst == path[1] = "."
        dotLast == path[Len(path)] = "."
        dotDot == \E i \in 1..(Len(path) - 1) : <<path[i], path[i + 1]>> = <<".", ".">>
    IN /\ path = <<>> => last.err = "ok"
       /\ (path # <<>> /\ AllInClass(path)) =>
            /\ last.err # "ok" <=> (dotFirst \/ dotLast \/ dotDot)
            /\ last.err = "ok" <=> WellFormed(path)
            /\ last.err # "InvalidPathCharacter"
C5_Witness ==
  /\ last.op = "validatePath"
  /\ last.path = <<"A", ".", ".", "b">>
  /\ last.err = "InvalidPathSegment"

\* C6: a getOrCreate, update or configSection call that fails path
\* validation leaves the Document, the DefaultsTree, the Snapshot and the
\* file as they were before the call.
C6_InvalidPathChangesNothing ==
  [][(last'.op \in PathAddressed /\ last'.err \in PathErrors) =>
       /\ Document' = Document
       /\ DefaultsTree' = DefaultsTree
       /\ Snapshot' = Snapshot
       /\ file' = file]_vars
C6_Witness ==
  /\ last.op = "configSection"
  /\ last.err = "InvalidPathBoundary"
  /\ loaded.st = "json"
  /\ DefaultsTree # Reify(<<EmptyObj>>, Ref(1))

\* C7: over a file that is no JSON the constructor records the failure and
\* the store works on an empty document: configSection(p, D) returns D
\* and persists it at p, as on a store without a file.
C7_ParseFailureContinues ==
  (loaded.st = "garbage" /\ n = 1 /\ last.op = "configSection"
     /\ WellFormed(last.path)) =>
    /\ configFileLoadingError
    /\ last.err = "ok"
    /\ last.ret = last.arg
    /\ file.st = "json"
    /\ SubTree(file.doc, PathKeys(last.path)) = last.arg

\* C3: when update, configSection or validate(true) has returned, for a
\* well-formed path and any value, the document in the file equals the
\* Document in memory.
C3_FileEqualsMemory ==
  (/\ last.err = "ok"
   /\ \/ last.op \in {"update", "configSection"} /\ WellFormed(last.path)
      \/ last.op = "validate" /\ last.clear) =>
    /\ file.st = "json"
    /\ file.doc = Document

\* a key path q of D lies below a key that S lacks, reached through
\* mappings of S
OnlyIn(D, S, q) ==
  \E i \in 1..Len(q) :
    /\ SubSeq(q, 1, i) \notin DOMAIN S
    /\ \A j \in 0..(i - 1) : S[SubSeq(q, 1, j)] = MapNode

\* C1: on a store constructed over a file that holds the mapping S at path
\* p, configSection(p, D) with a mapping D returns a tree in which every
\* key of S carries S's value and every key only D has carries D's value,
\* and persists it at p.
C1_StoredValuesWin ==
  [][(/\ n = 0
      /\ loaded.st = "json"
      /\ last'.op = "configSection"
      /\ validatePath(last'.path) = "ok" /\ AllInClass(last'.path)
      /\ PathKeys(last'.path) \in DOMAIN loaded.doc
      /\ loaded.doc[PathKeys(last'.path)] = MapNode
      /\ last'.arg[Root] = MapNode) =>
       LET p == PathKeys(last'.path)
           S == SubTree(loaded.doc, p)
           D == last'.arg
           R == last'.ret
       IN /\ last'.err = "ok"
          /\ \A q \in DOMAIN S : q \in DOMAIN R /\ R[q] = S[q]
          /\ \A q \in DOMAIN D : OnlyIn(D, S, q) => q \in DOMAIN R /\ R[q] = D[q]
          /\ file'.st = "json"
          /\ SubTree(file'.doc, p) = R]_vars

\* no segment of the path is a key of the defaults
NoCollision(path, d) == \A i \in 1..Len(Split(path)) : <<Split(path)[i]>> \notin DOMAIN d

\* C2: of two configSection calls in a row with well-formed paths and
\* mappings as defaults, where no segment of a path is a default key of the
\* other section, the second leaves every default key of the first under
\* the first's path, in the Document and in the file.
C2_EarlierSectionKept ==
  [][(/\ last.op = "configSection" /\ last.err = "ok" /\ WellFormed(last.path)
      /\ last'.op = "configSection" /\ last'.err = "ok"
      /\ WellFormed(last'.path)
      /\ last.arg[Root] = MapNode /\ last'.arg[Root] = MapNode
      /\ NoCollision(last.path, last'.arg)
      /\ NoCollision(last'.path, last.arg)) =>
       \A k \in Kids(last.arg, Root) :
         /\ Append(PathKeys(last.path), k) \in DOMAIN Document'
         /\ file'.st = "json"
         /\ Append(PathKeys(last.path), k) \in DOMAIN file'.doc]_vars

\* the keys the walk of validateConfig visits: the keys of the Document
\* below which, at every level above, Document and DefaultsTree both hold an
\* object
Visited(C, Df) ==
  {q \in DOMAIN C :
     /\ Len(q) >= 1
     /\ \A i \in 1..(Len(q) - 1) :
          /\ SubSeq(q, 1, i) \in DOMAIN Df
          /\ Kind(C[SubSeq(q, 1, i)]) = "object"
          /\ Kind(Df[SubSeq(q, 1, i)]) = "object"}
DottedPaths(doc) == {Dotted(q) : q \in DOMAIN doc \ {Root}}

\* C8: on a store over a file that existed, a validate call that returns
\* reports as unused every visited key without a counterpart in the
\* DefaultsTree; after validate(true) none of the reported paths is left
\* in the Document or in the file, and a validate() right after it reports
\* no unused value.
C8_UnusedReportedAndCleared ==
  [][(loaded.st = "json" /\ last'.op = "validate" /\ last'.err = "ok") =>
       /\ last'.rep.unusedValues =
            {Dotted(q) : q \in {v \in Visited(Document, DefaultsTree) :
                                  v \notin DOMAIN DefaultsTree}}
       /\ last'.clear =>
            /\ last'.rep.unusedValues \cap DottedPaths(Document') = {}
            /\ last'.rep.unusedValues \cap DottedPaths(file'.doc) = {}
       /\ (last.op = "validate" /\ last.clear /\ last.err = "ok"
             /\ ~last'.clear) => last'.rep.unusedValues = {}]_vars

\* C9: a validate() call that returns reports created = true exactly when
\* there was no file at construction, and else the dotted paths of exactly
\* the visited keys that the Snapshot lacks at the same position.
C9_CreatedReport ==
  [][(last'.op = "validate" /\ ~last'.clear /\ last'.err = "ok") =>
       /\ last'.rep.createdAll <=> loaded.st = "absent"
       /\ loaded.st # "absent" =>
            last'.rep.created =
              {Dotted(q) : q \in {v \in Visited(Document, DefaultsTree) :
                                    v \notin DOMAIN Snapshot}}]_vars

\* the wrongTypes a report should hold: the visited keys that Document and
\* DefaultsTree both have, with kinds that differ
WrongTypes(C, Df) ==
  {[path |-> Dotted(q), expected |-> Kind(Df[q]), actual |-> Kind(C[q])] :
     q \in {v \in Visited(C, Df) :
              v \in DOMAIN Df /\ Kind(C[v]) # Kind(Df[v])}}

\* C10: after a first configSection(p, D) over a stored subtree, validate()
\* reports in wrongTypes exactly the visited keys that Document and
\* DefaultsTree both have with differing kinds, and the DefaultsTree holds
\* at p the kinds of D as it was handed in.
C10_WrongTypesReport ==
  [][(/\ loaded.st = "json" /\ n = 1
      /\ last.op = "configSection" /\ last.err = "ok" /\ WellFormed(last.path)
      /\ last'.op = "validate" /\ ~last'.clear) =>
       /\ last'.err = "ok"
       /\ last'.rep.wrongTypes = WrongTypes(Document, DefaultsTree)
       /\ \A q \in DOMAIN last.arg :
            /\ PathKeys(last.path) \o q \in DOMAIN DefaultsTree
            /\ Kind(DefaultsTree[PathKeys(last.path) \o q]) = Kind(last.arg[q])]_vars

\* the document {q1: {q2: ... D}}: the chain of single-key mappings for the
\* key path q that ends in the tree D
Chain(q, D) ==
  [r \in {SubSeq(q, 1, i) : i \in 0..(Len(q) - 1)} \cup {q \o d : d \in DOMAIN D}
     |-> IF Len(r) < Len(q) THEN MapNode
         ELSE D[SubSeq(r, Len(q) + 1, Len(r))]]

\* C11: on a store without a file, the first configSection(p, D), for a
\* well-formed p and any D or for the empty p and a mapping D, returns a
\* value equal to D and writes a file that holds exactly the chain of
\* single-key mappings for p's segments ending in D.
C11_FirstSectionWritten ==
  [][(/\ n = 0
      /\ loaded.st = "absent"
      /\ last'.op = "configSection"
      /\ \/ WellFormed(last'.path)
         \/ last'.path = <<>> /\ last'.arg[Root] = MapNode) =>
       /\ last'.err = "ok"
       /\ last'.ret = last'.arg
       /\ file'.st = "json"
       /\ file'.doc = Chain(PathKeys(last'.path), last'.arg)]_vars
C11_Witness ==
  /\ loaded.st = "absent" /\ n = 1
  /\ last.op = "configSection" /\ last.path = <<"A", ".", "B">>
  /\ last.arg = DefMapping /\ last.ret = DefMapping
  /\ file.st = "json" /\ <<"A", "B", "k", "m">> \in DOMAIN file.doc

\* C12: configSection("", D) with a mapping D registers D's keys at the
\* root of the DefaultsTree, and a validate() right after it reports none
\* of D's keys as unused.
C12_EmptyPathRegistersAtRoot ==
  [][(/\ last.op = "configSection" /\ last.path = <<>> /\ last.err = "ok"
      /\ last.arg[Root] = MapNode
      /\ last'.op = "validate" /\ ~last'.clear /\ last'.err = "ok") =>
       \A k \in Kids(last.arg, Root) :
         /\ <<k>> \in DOMAIN DefaultsTree
         /\ k \notin last'.rep.unusedValues]_vars

\* C13: a configSection call that registers again, with a mapping as
\* defaults, the path the call before it registered with a mapping removes
\* no key path from the DefaultsTree.
C13_DefaultsGrowMonotonically ==
  [][(/\ last.op = "configSection" /\ last.err = "ok"
      /\ last.arg[Root] = MapNode
      /\ last'.op = "configSection" /\ last'.arg[Root] = MapNode
      /\ last'.path = last.path /\ WellFormed(last.path)) =>
       DOMAIN DefaultsTree \subseteq DOMAIN DefaultsTree']_vars

\* the document {}
EmptyDoc == Doc({<<Root, MapNode>>})

\* C14: on a store whose file was absent or parsed, getOrCreate(path) with
\* a well-formed path returns a plain mapping, which is the Document's
\* value at that path; on an empty Document getOrCreate("A.B") leaves the
\* Document {A: {B: {}}}.
C14_GetOrCreateReturnsMapping ==
  (/\ last.op = "getOrCreate" /\ WellFormed(last.path)
   /\ loaded.st # "garbage") =>
    /\ last.err = "ok"
    /\ last.ret[Root] = MapNode
    /\ PathKeys(last.path) \in DOMAIN Document
    /\ SubTree(Document, PathKeys(last.path)) = last.ret
    /\ (loaded.st = "absent" /\ n = 1) =>
         Document = Chain(PathKeys(last.path), EmptyDoc)

\* C15: the Snapshot of a store over a parsed file is never changed by a
\* call.
C15_SnapshotNeverChanges ==
  [][loaded.st = "json" => Snapshot' = Snapshot]_vars

\* C18: on a store over a parsed file, a validate call that follows the
\* construction or a configSection call returns a report and does not
\* throw.
C18_ValidateNeverThrows ==
  [][(/\ loaded.st = "json"
      /\ last.op \in {"new", "configSection"} /\ last.err = "ok"
      /\ last'.op = "validate") => last'.err = "ok"]_vars

\* the per-key rule as C16 states it: the pairs of the tree that a target
\* tree T becomes when the mapping S is merged into it.  A key whose source value is a
\* mapping holds afterwards the merge of that mapping into the mapping the
\* target had there (into {} when it had none); any other source value
\* replaces the target's value.
RECURSIVE RulePairs(_, _)
RulePairs(T, S) ==
  LET T0 == IF T[Root] = MapNode THEN T ELSE EmptyDoc
      sub(k) ==
        IF k \notin Kids(S, Root) THEN {<<q, SubTree(T0, <<k>>)[q]>> :
                                          q \in DOMAIN SubTree(T0, <<k>>)}
        ELSE IF S[<<k>>] = MapNode
        THEN RulePairs(IF k \in Kids(T0, Root) THEN SubTree(T0, <<k>>)
                       ELSE EmptyDoc, SubTree(S, <<k>>))
        ELSE {<<q, SubTree(S, <<k>>)[q]>> : q \in DOMAIN SubTree(S, <<k>>)}
  IN {<<Root, MapNode>>}
       \cup UNION {{<<<<k>> \o pr[1], pr[2]>> : pr \in sub(k)} :
                     k \in Kids(T0, Root) \cup Kids(S, Root)}
\* the rule applied for the sources from left to right
RECURSIVE RuleAll(_, _)
RuleAll(T, srcs) ==
  IF srcs = <<>> THEN T
  ELSE RuleAll(Doc(RulePairs(T, Head(srcs))), Tail(srcs))
\* the sources of the merge as trees
SourceTrees == [i \in 1..(Len(held) - 1) |-> Reify(heap, held[i + 1])]

\* C16: mergeConfigs(target, ...sources) leaves in target the tree the
\* per-key rule gives, applied for the sources from left to right.
C16_MergePerKeyRule ==
  [][last'.op = "merge" =>
       last'.ret = RuleAll(last'.arg, SourceTrees)]_vars

\* C17: mergeConfigs(copy(X), X) leaves a target equal to X, and a merge
\* leaves its sources as they were.
C17_MergeIdempotent ==
  [][last'.op = "merge" =>
       /\ (Len(held) = 2 /\ last'.arg = SourceTrees[1]) =>
            last'.ret = SourceTrees[1]
       /\ SourceTrees' = SourceTrees]_vars
C17_Witness ==
  /\ last.op = "merge" /\ Len(held) = 2
  /\ last.arg = Reify(heap, held[2])
  /\ last.ret = last.arg
  /\ <<"a", "x", "y">> \in DOMAIN last.ret
  /\ <<"b", "0">> \in DOMAIN last.ret

\* C19: a configSection call with a well-formed path leaves the subtree at
\* every top-level key other than the path's first segment as it was, in
\* the Document and in the file the call writes.
C19_OtherSectionsUntouched ==
  [][(/\ last'.op = "configSection" /\ last'.err = "ok"
      /\ WellFormed(last'.path)) =>
       \A p \in Kids(Document, Root) \ {PathKeys(last'.path)[1]} :
         /\ <<p>> \in DOMAIN Document'
         /\ SubTree(Document', <<p>>) = SubTree(Document, <<p>>)
         /\ file' # file =>
              /\ <<p>> \in DOMAIN file'.doc
              /\ SubTree(file'.doc, <<p>>) = SubTree(Document, <<p>>)]_vars

====
